---- MODULE Spec2Model ----
(***************************************************************************)
(* parranda-crawler (src/app.py): a Flask application that polls a product *)
(* catalog for one named product, keeps the last seen availability in a    *)
(* flat text file and sends an e-mail when the product becomes available.  *)
(*                                                                         *)
(* Texts (file contents, statuses) are sequences of one-character strings, *)
(* so that strip(), truncation and overwriting at offset 0 are computed on *)
(* the characters.  Python's None is the sentinel None below.              *)
(***************************************************************************)
EXTENDS Integers, Sequences, FiniteSets, TLC

\* ---------------------------------------------------------------- bounds
MaxPad == 1        \* whitespace characters around the word of an initial file text
MaxItems == 2      \* items in one catalog response
MaxSent == 2       \* notifications counted before checks that notify are cut off

\* ------------------------------------------------------------- constants
PRODUCT_NAME == "Pallet Malta Guajira 330ml"

AVAILABLE == <<"a", "v", "a", "i", "l", "a", "b", "l", "e">>
UNAVAILABLE == <<"u", "n">> \o AVAILABLE

\* Python None / JSON null, and a key that a JSON body does not carry.
None == <<"None">>
NoKey == <<"NoKey">>

\* ------------------------------------------------------------------ text
Whitespace == {" ", "\n"}

RECURSIVE lstrip(_)
lstrip(s) ==
    IF s = <<>> THEN <<>>
    ELSE IF Head(s) \in Whitespace THEN lstrip(Tail(s)) ELSE s

RECURSIVE rstrip(_)
rstrip(s) ==
    IF s = <<>> THEN <<>>
    ELSE IF s[Len(s)] \in Whitespace THEN rstrip(SubSeq(s, 1, Len(s) - 1)) ELSE s

\* str.strip(): drop leading and trailing whitespace.
strip(s) == rstrip(lstrip(s))

\* ---------------------------------------------------------- status store
\* The status file: whether it exists, and its characters.
NoFile == [exists |-> FALSE, text |-> <<>>]
FileOf(t) == [exists |-> TRUE, text |-> t]

\* get_last_status with the existence test inverted.
get_last_status_inverted(f, readErr) ==
    IF f.exists \/ readErr THEN None ELSE strip(f.text)

\* get_last_status(): the stripped text, None when the file does not exist
\* or reading it raises (readErr).
get_last_status(f, readErr) ==
    IF ~f.exists THEN None
    ELSE IF readErr THEN None
    ELSE strip(f.text)

\* open(STATUS_FILE, 'a'): no truncation.
open_append(f, ok) ==
    IF ok THEN [ok |-> TRUE, file |-> FileOf(f.text)] ELSE [ok |-> FALSE, file |-> f]

\* open(STATUS_FILE, 'w'): creates or truncates the file; when it raises the
\* file is untouched.
open_w(f, ok) ==
    IF ok THEN [ok |-> TRUE, file |-> FileOf(<<>>)] ELSE [ok |-> FALSE, file |-> f]

\* f.write(status) and the close of the with-block: the buffered characters
\* go to offset 0 of whatever the file holds by then; when it raises nothing
\* is written.
write_close(f, data, ok) ==
    IF ~ok THEN f
    ELSE FileOf(data \o SubSeq(f.text, Len(data) + 1, Len(f.text)))

WriteOutcomes == {"ok", "open_error", "write_error"}

\* save_status that lets the exception escape.
save_status_raising(f, status, outcome) ==
    LET o == open_w(f, outcome # "open_error") IN
    IF ~o.ok THEN [file |-> f, raised |-> TRUE]
    ELSE [file |-> write_close(o.file, status, outcome # "write_error"),
          raised |-> outcome # "ok"]

\* save_status that opens the file for appending.
save_status_append(f, status, outcome) ==
    LET o == open_append(f, outcome # "open_error") IN
    IF ~o.ok THEN [file |-> f, raised |-> FALSE]
    ELSE [file |-> IF outcome = "ok" THEN FileOf(o.file.text \o status) ELSE o.file,
          raised |-> FALSE]

\* save_status(): open for writing, write, close; every exception is logged
\* and swallowed (raised is never TRUE).
save_status(f, status, outcome) ==
    LET o == open_w(f, outcome # "open_error") IN
    IF ~o.ok THEN [file |-> f, raised |-> FALSE]
    ELSE [file |-> write_close(o.file, status, outcome # "write_error"),
          raised |-> FALSE]

\* -------------------------------------------------------- catalog client
Names == {PRODUCT_NAME, "PALLET MALTA GUAJIRA 330ML", "Malta Bucanero 355ml"}

\* str.lower() on the names of the catalog.
lower(n) ==
    CASE n = "Pallet Malta Guajira 330ml" -> "pallet malta guajira 330ml"
      [] n = "PALLET MALTA GUAJIRA 330ML" -> "pallet malta guajira 330ml"
      [] n = "Malta Bucanero 355ml" -> "malta bucanero 355ml"

\* The JSON value of an item's hasStock, "missing" when the key is absent.
StockValues == {"true", "false", "missing"}
Items == [name : Names, hasStock : StockValues]
ItemLists == UNION {[1..n -> Items] : n \in 0..MaxItems}

\* What the POST to the products API produces: a list of items, or a
\* transport failure, or a body that does not parse.
Faults == {"none", "request", "parse"}
Catalogs == {[fault |-> "none", items |-> l] : l \in ItemLists}
            \cup {[fault |-> x, items |-> <<>>] : x \in Faults \ {"none"}}

\* The for-loop of find_product: the first item whose name matches.
RECURSIVE first_match(_)
first_match(items) ==
    IF items = <<>> THEN <<>>
    ELSE IF lower(PRODUCT_NAME) = lower(Head(items).name) THEN <<Head(items)>>
    ELSE first_match(Tail(items))

\* find_product(): <<item>> or <<>> (None); failures give None as well.
find_product(catalog) ==
    IF catalog.fault # "none" THEN <<>> ELSE first_match(catalog.items)

\* Every value find_product can return for the catalog answers considered.
Products == {find_product(c) : c \in Catalogs}

\* --------------------------------------------------------------- notifier
\* send_email(): True when the provider accepted the message, False when
\* anything raised.
send_email(mailOk) == mailOk

\* ------------------------------------------------------- request handler
Response(http, status, product_status, message, previous_status, last_status) ==
    [http |-> http, status |-> status, product_status |-> product_status,
     message |-> message, previous_status |-> previous_status,
     last_status |-> last_status]

NoResponse == Response(0, "none", NoKey, <<>>, NoKey, NoKey)

\* The body and code returned when find_product gives None.
not_found_response ==
    Response(500, "error", NoKey, <<"Product not found in API response">>, NoKey, NoKey)

\* The except branch of check_product.
unexpected_error_response(what) ==
    Response(500, "error", NoKey, <<what>>, NoKey, NoKey)

\* A not-found branch that records the product as unavailable.
not_found_result_saving(f) ==
    [file |-> save_status(f, UNAVAILABLE, "ok").file, emails |-> 0, mail |-> "none",
     resp |-> not_found_response, write |-> "ok"]

\* The early return of check_product when the product is absent.
not_found_result(f) ==
    [file |-> f, emails |-> 0, mail |-> "none",
     resp |-> not_found_response, write |-> "none"]

\* Truthiness of product["hasStock"].
Truthy(v) == v = "true"

\* The branch with the negation dropped.
current_status_swapped(item) ==
    IF Truthy(item.hasStock) THEN UNAVAILABLE ELSE AVAILABLE

\* The status computed from the product record.
current_status(item) ==
    IF ~Truthy(item.hasStock) THEN UNAVAILABLE ELSE AVAILABLE

\* The comparison inverted.
should_notify_inverted(last_status) == last_status = AVAILABLE

\* The comparison dropped.
should_notify_always(last_status) == TRUE

\* The test guarding send_email.
should_notify(last_status) == last_status # AVAILABLE

\* The message of a check that found the product.
check_message(item, mail) ==
    IF ~Truthy(item.hasStock) THEN <<"Product still doesn't have stock.">>
    ELSE IF mail = "none" THEN <<"Product is AVAILABLE now!">>
    ELSE <<"Product is AVAILABLE now!",
           IF mail = "sent" THEN " | Email sent: True" ELSE " | Email sent: False">>

success_response(item, mail, last_status) ==
    Response(200, "success", current_status(item), check_message(item, mail),
             last_status, NoKey)

\* check_product() from the product on: read the prior status, compute the
\* current one, notify, save, respond.
found_result(f, item, readErr, mailOk, writeOutcome) ==
    LET last_status == get_last_status(f, readErr) IN
    IF item.hasStock = "missing"
    THEN [file |-> f, emails |-> 0, mail |-> "none",
          resp |-> unexpected_error_response("KeyError: 'hasStock'"), write |-> "none"]
    ELSE
      LET notify == Truthy(item.hasStock) /\ should_notify(last_status)
          mail == IF ~notify THEN "none"
                  ELSE IF send_email(mailOk) THEN "sent" ELSE "failed"
          saved == save_status(f, current_status(item), writeOutcome)
      IN [file |-> saved.file,
          emails |-> IF notify THEN 1 ELSE 0,
          mail |-> mail,
          resp |-> IF saved.raised THEN unexpected_error_response("OSError")
                   ELSE success_response(item, mail, last_status),
          write |-> writeOutcome]

\* check_product(): the whole handler as a function of the store, of what
\* find_product returned and of what the outside world answers during the
\* request.
check_product_result(f, product, readErr, mailOk, writeOutcome) ==
    IF product = <<>> THEN not_found_result(f)
    ELSE found_result(f, product[1], readErr, mailOk, writeOutcome)

\* ------------------------------------------------------------------ state
VARIABLES
    file,         \* the status file
    sent,         \* number of send_email invocations so far
    last,         \* the latest completed request: what it saw and answered
    lastSuccess,  \* the latest /check that answered success
    owed,         \* a notification failed and 'available' was persisted since
    pc,           \* concurrent workers: position inside check_product
    local,        \* concurrent workers: local variables of check_product
    trace         \* concurrent workers: order of catalog queries and of writes

vars == <<file, sent, last, lastSuccess, owed, pc, local, trace>>

Workers == {"w1", "w2"}

Pads == UNION {[1..n -> Whitespace] : n \in 0..MaxPad}
Words == {<<>>, AVAILABLE, UNAVAILABLE,
          <<"A">> \o Tail(AVAILABLE),
          AVAILABLE \o <<"l", "e">>}
PadPairs == {p \in Pads \X Pads : Len(p[1]) + Len(p[2]) <= MaxPad}
InitialFiles == {NoFile} \cup {FileOf(p[1] \o w \o p[2]) : p \in PadPairs, w \in Words}

NoRequest ==
    [op |-> "none", found |-> FALSE, stock |-> "none", readErr |-> FALSE,
     mailOk |-> FALSE, write |-> "none", emails |-> 0, resp |-> NoResponse]

NoLocal ==
    [stock |-> "none", last_status |-> NoKey, mail |-> "none",
     write |-> "none", resp |-> NoResponse]

Init ==
    /\ file \in InitialFiles
    /\ sent = 0
    /\ last = NoRequest
    /\ lastSuccess = [any |-> FALSE, product_status |-> NoKey, wrote |-> FALSE]
    /\ owed = FALSE
    /\ pc = [w \in Workers |-> "idle"]
    /\ local = [w \in Workers |-> NoLocal]
    /\ trace = [queried |-> <<>>, writes |-> <<>>]

\* ---------------------------------------------------- sequential requests
StockOf(product) == IF product = <<>> THEN "none" ELSE product[1].hasStock

\* GET /check, served alone.  The catalog's answer enters through what
\* find_product makes of it.
check_product ==
    \E product \in Products, readErr \in BOOLEAN, mailOk \in BOOLEAN,
       writeOutcome \in WriteOutcomes :
      LET r == check_product_result(file, product, readErr, mailOk, writeOutcome)
          ok == r.resp.status = "success"
          faultFree == ok /\ ~readErr /\ r.write = "ok"
      IN /\ sent + r.emails <= MaxSent
         /\ file' = r.file
         /\ sent' = sent + r.emails
         /\ last' = [op |-> "check", found |-> product # <<>>,
                     stock |-> StockOf(product), readErr |-> readErr,
                     mailOk |-> mailOk, write |-> r.write,
                     emails |-> r.emails, resp |-> r.resp]
         /\ lastSuccess' = IF ok
                           THEN [any |-> TRUE,
                                 product_status |-> r.resp.product_status,
                                 wrote |-> r.write = "ok"]
                           ELSE lastSuccess
         /\ owed' = IF product = <<>> \/ StockOf(product) = "missing" THEN owed
                    ELSE IF r.mail = "failed" /\ r.write = "ok" THEN TRUE
                    ELSE IF StockOf(product) = "true" /\ faultFree THEN owed
                    ELSE FALSE
         /\ UNCHANGED <<pc, local, trace>>

\* GET /status.
get_status ==
    \E readErr \in BOOLEAN :
      /\ last' = [NoRequest EXCEPT
                    !.op = "status", !.readErr = readErr,
                    !.resp = Response(200, "none", NoKey, <<>>, NoKey,
                                      get_last_status(file, readErr))]
      /\ UNCHANGED <<file, sent, lastSuccess, owed, pc, local, trace>>

\* GET /.
index ==
    /\ last' = [NoRequest EXCEPT
                  !.op = "index",
                  !.resp = Response(200, "running", NoKey,
                                    <<"Product crawler is active.">>, NoKey, NoKey)]
    /\ UNCHANGED <<file, sent, lastSuccess, owed, pc, local, trace>>

Next == check_product \/ get_status \/ index

Spec == Init /\ [][Next]_vars

\* ---------------------------------------------------- concurrent requests
\* Two /check requests served by different threads of the hosting server.
\* Each worker runs check_product once; a step is one call that touches the
\* world (catalog, status file, mail provider) with the local computation
\* that follows it.  Nothing in the handler takes a lock.

Finish(w, resp, write) ==
    /\ pc' = [pc EXCEPT ![w] = "done"]
    /\ local' = [local EXCEPT ![w].resp = resp, ![w].write = write]

\* product = find_product(), and the early return when it is None.
c_find(w) ==
    /\ pc[w] = "idle"
    /\ \E product \in Products :
         /\ trace' = [trace EXCEPT !.queried = Append(@, w)]
         /\ IF product = <<>>
            THEN Finish(w, not_found_result(file).resp, "none")
            ELSE /\ pc' = [pc EXCEPT ![w] = "read"]
                 /\ local' = [local EXCEPT ![w].stock = StockOf(product)]
    /\ UNCHANGED <<file, sent, last, lastSuccess, owed>>

\* last_status = get_last_status(), then the branch on product["hasStock"].
c_read(w) ==
    /\ pc[w] = "read"
    /\ \E readErr \in BOOLEAN :
         LET last_status == get_last_status(file, readErr) IN
         IF local[w].stock = "missing"
         THEN /\ pc' = [pc EXCEPT ![w] = "done"]
              /\ local' = [local EXCEPT
                             ![w].last_status = last_status,
                             ![w].resp = unexpected_error_response("KeyError: 'hasStock'")]
         ELSE /\ pc' = [pc EXCEPT ![w] =
                          IF Truthy(local[w].stock) /\ should_notify(last_status)
                          THEN "email" ELSE "open"]
              /\ local' = [local EXCEPT ![w].last_status = last_status]
    /\ UNCHANGED <<file, sent, last, lastSuccess, owed, trace>>

\* email_sent = send_email().
c_email(w) ==
    /\ pc[w] = "email"
    /\ sent < MaxSent
    /\ \E mailOk \in BOOLEAN :
         local' = [local EXCEPT ![w].mail = IF send_email(mailOk) THEN "sent" ELSE "failed"]
    /\ sent' = sent + 1
    /\ pc' = [pc EXCEPT ![w] = "open"]
    /\ UNCHANGED <<file, last, lastSuccess, owed, trace>>

WorkerItem(w) == [name |-> PRODUCT_NAME, hasStock |-> local[w].stock]

WorkerResponse(w) ==
    success_response(WorkerItem(w), local[w].mail, local[w].last_status)

\* save_status(), first half: open(STATUS_FILE, 'w').  When it raises the
\* exception is swallowed and the handler responds.
c_open(w) ==
    /\ pc[w] = "open"
    /\ \E ok \in BOOLEAN :
         LET o == open_w(file, ok) IN
         /\ file' = o.file
         /\ IF o.ok
            THEN /\ pc' = [pc EXCEPT ![w] = "write"]
                 /\ UNCHANGED local
            ELSE Finish(w, WorkerResponse(w), "open_error")
    /\ UNCHANGED <<sent, last, lastSuccess, owed, trace>>

\* save_status(), second half: f.write(status) and the close; then the
\* response.
c_write(w) ==
    /\ pc[w] = "write"
    /\ \E ok \in BOOLEAN :
         /\ file' = write_close(file, current_status(WorkerItem(w)), ok)
         /\ trace' = IF ok
                     THEN [trace EXCEPT !.writes =
                             Append(@, [by |-> w, status |-> current_status(WorkerItem(w))])]
                     ELSE trace
         /\ Finish(w, WorkerResponse(w), IF ok THEN "ok" ELSE "write_error")
    /\ UNCHANGED <<sent, last, lastSuccess, owed>>

NextConc ==
    \E w \in Workers : c_find(w) \/ c_read(w) \/ c_email(w) \/ c_open(w) \/ c_write(w)

SpecConc == Init /\ [][NextConc]_vars

\* ------------------------------------------------------ claims: /check
\* A step that serves a /check leaves op = "check" in last'.  The persisted
\* status is what an undisturbed read of the file returns.
Persisted(f) == get_last_status(f, FALSE)

\* C1 (as stated): a check that observes hasStock=true while the status it
\* read is 'unavailable' invokes the notifier exactly once and leaves
\* 'available' persisted.
C1_Original ==
    [][(last'.op = "check" /\ last'.stock = "true"
        /\ last'.resp.previous_status = UNAVAILABLE)
       => (sent' = sent + 1 /\ last'.emails = 1 /\ Persisted(file') = AVAILABLE)]_vars

\* C1 (amended): such a check invokes the notifier exactly once, and leaves
\* 'available' persisted whenever its store write succeeds.
C1_NotifiesOnceOnTransition ==
    [][(last'.op = "check" /\ last'.stock = "true"
        /\ last'.resp.previous_status = UNAVAILABLE)
       => (/\ sent' = sent + 1
           /\ last'.emails = 1
           /\ (last'.write = "ok" => file' = FileOf(AVAILABLE)))]_vars

C1_Witness ==
    /\ last.op = "check" /\ last.stock = "true"
    /\ last.resp.previous_status = UNAVAILABLE
    /\ last.emails = 1 /\ sent = 1
    /\ last.write = "ok" /\ file = FileOf(AVAILABLE)

\* C2: a check that observes hasStock=false answers product_status
\* 'unavailable' and does not invoke the notifier, whatever the prior status.
C2_NoStockNeverNotifies ==
    [][(last'.op = "check" /\ last'.stock = "false")
       => (/\ last'.resp.status = "success"
           /\ last'.resp.product_status = UNAVAILABLE
           /\ last'.emails = 0
           /\ sent' = sent)]_vars

C2_Witness ==
    /\ last.op = "check" /\ last.stock = "false"
    /\ last.resp.previous_status = AVAILABLE
    /\ last.resp.product_status = UNAVAILABLE
    /\ last.emails = 0

\* The latest request was a check that observed hasStock=true and whose
\* status read and status write both succeeded.
FaultFreeInStock ==
    /\ last.op = "check" /\ last.stock = "true"
    /\ ~last.readErr /\ last.write = "ok"

C4_NotFoundLeavesStore ==
    [][(last'.op = "check" /\ ~last'.found)
       => (/\ last'.resp.http = 500
           /\ last'.resp.status = "error"
           /\ file' = file
           /\ last'.write = "none"
           /\ last'.emails = 0
           /\ sent' = sent)]_vars

C4_Witness ==
    /\ last.op = "check" /\ ~last.found
    /\ last.resp.http = 500
    /\ file = FileOf(UNAVAILABLE)
    /\ lastSuccess.any /\ lastSuccess.product_status = UNAVAILABLE

\* The status a check computes from the stock flag it observed.
Computed(stock) == IF stock = "true" THEN AVAILABLE ELSE UNAVAILABLE

\* C5 (as stated): when the store write fails in a check that found the
\* product, the check answers success with the computed status and the
\* persisted status keeps its previous value.
C5_Original ==
    [][(last'.op = "check" /\ last'.found /\ last'.write \in {"open_error", "write_error"})
       => (/\ last'.resp.http = 200 /\ last'.resp.status = "success"
           /\ last'.resp.product_status = Computed(last'.stock)
           /\ Persisted(file') = Persisted(file))]_vars

\* C5 (amended): such a check answers success with the computed status; the
\* file keeps its content when it could not be opened, and is left empty
\* when the write failed after the open truncated it.
C5_WriteFailureSwallowed ==
    [][(last'.op = "check" /\ last'.found /\ last'.write \in {"open_error", "write_error"})
       => (/\ last'.resp.http = 200 /\ last'.resp.status = "success"
           /\ last'.resp.product_status = Computed(last'.stock)
           /\ (last'.write = "open_error" => file' = file)
           /\ (last'.write = "write_error" => file' = FileOf(<<>>)))]_vars

C5_Witness ==
    /\ last.op = "check" /\ last.found /\ last.stock = "true"
    /\ last.write = "write_error"
    /\ last.resp.status = "success" /\ last.resp.product_status = AVAILABLE
    /\ last.resp.previous_status = UNAVAILABLE
    /\ file = FileOf(<<>>)

\* C6 (as stated): the persisted status equals the product_status of the
\* latest check that answered success.
C6_Original ==
    lastSuccess.any => Persisted(file) = lastSuccess.product_status

\* C6 (amended): the status file holds exactly the product_status of the
\* latest check that answered success, provided that check's store write
\* succeeded.
C6_StoreReflectsLastWrittenCheck ==
    (lastSuccess.any /\ lastSuccess.wrote)
       => (file = FileOf(lastSuccess.product_status)
           /\ Persisted(file) = lastSuccess.product_status)

C6_Witness ==
    /\ lastSuccess.any /\ lastSuccess.wrote
    /\ lastSuccess.product_status = AVAILABLE
    /\ last.op = "check" /\ ~last.found
    /\ file = FileOf(AVAILABLE)

\* ----------------------------------------------------- claims: /status
\* C7 (as stated): /status right after a check that answered success returns
\* that check's product_status, changes nothing in the store and does not
\* notify.
C7_Original ==
    [][last'.op = "status"
       => (/\ file' = file /\ sent' = sent
           /\ (last.op = "check" /\ last.resp.status = "success")
              => last'.resp.last_status = last.resp.product_status)]_vars

\* C7 (amended): /status never changes the store nor notifies; right after
\* a check that answered success and whose store write succeeded it returns
\* that check's product_status, unless reading the file fails, in which case
\* it returns null.
C7_StatusReturnsPersisted ==
    [][last'.op = "status"
       => (/\ file' = file /\ sent' = sent
           /\ (last.op = "check" /\ last.resp.status = "success"
               /\ last.write = "ok" /\ ~last'.readErr)
              => last'.resp.last_status = last.resp.product_status
           /\ last'.readErr => last'.resp.last_status = None)]_vars

C7_Witness ==
    /\ last.op = "status" /\ ~last.readErr
    /\ last.resp.last_status = AVAILABLE
    /\ lastSuccess.any /\ lastSuccess.wrote
    /\ lastSuccess.product_status = AVAILABLE

\* ------------------------------------------------ claims: notification
\* C8: the notifier is invoked only by a check that read 'unavailable' and
\* computed 'available'.
C8_NotifiesOnlyOnUnavailableToAvailable ==
    (last.op = "check" /\ last.emails > 0)
       => (last.resp.previous_status = UNAVAILABLE /\ last.stock = "true")

AllDone == \A w \in Workers : pc[w] = "done"
LastWrite == trace.writes[Len(trace.writes)]

\* C9: overlapping checks are not coordinated.  Every check decides to
\* notify from its own read of the status alone, so the notifier runs once
\* per check that read a status other than 'available' and observed
\* hasStock=true (twice for two such checks); and when both checks have
\* written, the file holds what the check that wrote last wrote ('available'
\* when both observed hasStock=true; a shorter status written over a longer
\* one by two interleaved writers leaves the longer one's tail).
C9_UncoordinatedChecks ==
    /\ \A w \in Workers :
         (pc[w] \in {"open", "write", "done"} /\ local[w].stock \in {"true", "false"})
            => ((local[w].mail # "none")
                  <=> (local[w].stock = "true" /\ local[w].last_status # AVAILABLE))
    /\ sent = Cardinality({w \in Workers : local[w].mail # "none"})
    /\ (AllDone /\ \A w \in Workers : local[w].write = "ok")
          => (/\ file.exists
              /\ file.text \in {LastWrite.status, AVAILABLE \o <<"l", "e">>}
              /\ (\A w \in Workers : local[w].stock = "true")
                    => (file = FileOf(AVAILABLE) /\ LastWrite.status = AVAILABLE))

\* Both checks read 'unavailable' before either wrote, both notified, and
\* the check that queried the catalog first wrote last.
C9_Witness ==
    /\ AllDone
    /\ \A w \in Workers :
         /\ local[w].stock = "true"
         /\ local[w].last_status = UNAVAILABLE
         /\ local[w].mail # "none"
         /\ local[w].write = "ok"
         /\ local[w].resp.status = "success"
    /\ sent = 2
    /\ Len(trace.writes) = 2
    /\ LastWrite.by = trace.queried[1]
    /\ file = FileOf(AVAILABLE)

\* The interleaved writers that leave neither status in the file.
C9_GarbledWitness ==
    /\ AllDone
    /\ \A w \in Workers : local[w].write = "ok"
    /\ file.text = AVAILABLE \o <<"l", "e">>

====
